---------------------------- MODULE Spec2Model ----------------------------
(***************************************************************************)
(* A model of LightRAG-Cruise: the description parser                      *)
(* (src/helpers/parser.py) and the CruiseRAG wrapper                       *)
(* (src/lightrag/CruiseRag.py): ingestion templates, the required-key      *)
(* check and the facet filter of search.                                   *)
(*                                                                         *)
(* A Python str is modelled as a sequence of one-character strings, so     *)
(* strip, split, find, lower, float() and int() are computed character by  *)
(* character.  Chars turns a literal of the source into that form.         *)
(***************************************************************************)
EXTENDS Integers, Sequences, FiniteSets, TLC

VARIABLES
    pc,           \* position of the running call
    request,      \* the call and its arguments
    description,  \* parse_description: the argument
    lines,        \* parse_description: description.strip().split('\n')
    idx,          \* parse_description: index of the line the loop is at
    data,         \* parse_description: the mapping being built
    current_key,  \* parse_description: the last opened multiline key
    rag,          \* the texts handed to the external service, in order
    queries,      \* the queries put to the external service, in order
    raw_results,  \* search: what the external service answered
    outcome       \* what the call returned or raised

vars ==
    << pc, request, description, lines, idx, data, current_key, rag, queries,
       raw_results, outcome >>

serviceVars == <<rag, queries, raw_results>>

parserVars == <<description, lines, idx, data, current_key>>

---------------------------------------------------------------------------
(* Python str primitives.                                                  *)

Chars(s) == [i \in 1..Len(s) |-> SubSeq(s, i, i)]

\* str.join over a list of strings
RECURSIVE Join(_, _)
Join(sep, parts) ==
    IF parts = <<>> THEN <<>>
    ELSE IF Len(parts) = 1 THEN parts[1]
    ELSE parts[1] \o sep \o Join(sep, Tail(parts))

\* the characters str.strip() removes
IsSpace(c) == c \in {" ", "\n", "\t", "\r"}

SetMin(S) == CHOOSE m \in S : \A n \in S : m <= n
SetMax(S) == CHOOSE m \in S : \A n \in S : m >= n

\* str.strip()
Strip(s) ==
    LET keep == {i \in 1..Len(s) : ~IsSpace(s[i])}
    IN  IF keep = {} THEN <<>> ELSE SubSeq(s, SetMin(keep), SetMax(keep))

\* the positions at which pat occurs in s
Occurrences(s, pat) ==
    {i \in 1..(Len(s) - Len(pat) + 1) : SubSeq(s, i, i + Len(pat) - 1) = pat}

\* pat in s
Contains(s, pat) == Occurrences(s, pat) # {}

\* str.split(sep): every occurrence splits
RECURSIVE Split(_, _)
Split(s, sep) ==
    IF ~Contains(s, sep) THEN <<s>>
    ELSE LET i == SetMin(Occurrences(s, sep))
         IN  <<SubSeq(s, 1, i - 1)>> \o Split(SubSeq(s, i + Len(sep), Len(s)), sep)

\* str.split(sep, 1) on a string that contains sep: the first occurrence splits
SplitOnce(s, sep) ==
    LET i == SetMin(Occurrences(s, sep))
    IN  <<SubSeq(s, 1, i - 1), SubSeq(s, i + Len(sep), Len(s))>>

UpperCase == Chars("ABCDEFGHIJKLMNOPQRSTUVWXYZ")
LowerCase == Chars("abcdefghijklmnopqrstuvwxyz")

\* str.lower()
Lower(s) ==
    [i \in 1..Len(s) |->
        IF \E j \in 1..Len(UpperCase) : UpperCase[j] = s[i]
        THEN LowerCase[CHOOSE j \in 1..Len(UpperCase) : UpperCase[j] = s[i]]
        ELSE s[i]]

Digits == Chars("0123456789")
IsDigit(c) == \E j \in 1..Len(Digits) : Digits[j] = c
DigitVal(c) == (CHOOSE j \in 1..Len(Digits) : Digits[j] = c) - 1


---------------------------------------------------------------------------
(* Python values held by the mapping.  One record shape for the four      *)
(* types: t is the type, s the text of a str, and n * 10^e the number of  *)
(* a bool (0 or 1), an int (e = 0) or a float.                             *)

StrVal(s)  == [t |-> "str", s |-> s, n |-> 0, e |-> 0]
BoolVal(b) == [t |-> "bool", s |-> <<>>, n |-> IF b THEN 1 ELSE 0, e |-> 0]
IntVal(n)  == [t |-> "int", s |-> <<>>, n |-> n, e |-> 0]

\* one float has one representation: no trailing zero in the mantissa
RECURSIVE FloatVal(_, _)
FloatVal(n, e) ==
    IF n = 0 THEN [t |-> "float", s |-> <<>>, n |-> 0, e |-> 0]
    ELSE IF n % 10 = 0 THEN FloatVal(n \div 10, e + 1)
    ELSE [t |-> "float", s |-> <<>>, n |-> n, e |-> e]

\* the result of an expression that may raise: exc is "" or the exception
Returns(v) == [exc |-> "", val |-> v]
Raises(x)  == [exc |-> x, val |-> StrVal(<<>>)]

\* digits, with single underscores allowed between digits
DigitPart(s) ==
    /\ s # <<>>
    /\ IsDigit(s[1]) /\ IsDigit(s[Len(s)])
    /\ \A i \in 1..Len(s) : IsDigit(s[i]) \/ s[i] = "_"
    /\ \A i \in 1..(Len(s) - 1) : ~(s[i] = "_" /\ s[i + 1] = "_")

RECURSIVE DigitsValue(_)
DigitsValue(s) ==
    IF s = <<>> THEN 0
    ELSE IF s[Len(s)] = "_" THEN DigitsValue(SubSeq(s, 1, Len(s) - 1))
    ELSE 10 * DigitsValue(SubSeq(s, 1, Len(s) - 1)) + DigitVal(s[Len(s)])

NumDigits(s) == Cardinality({i \in 1..Len(s) : IsDigit(s[i])})

HasSign(s) == s # <<>> /\ s[1] \in {"+", "-"}
Unsigned(s) == IF HasSign(s) THEN Tail(s) ELSE s
SignOf(s) == IF s # <<>> /\ s[1] = "-" THEN -1 ELSE 1

\* int(value) of a stripped string
PyInt(value) ==
    IF DigitPart(Unsigned(value))
    THEN Returns(IntVal(SignOf(value) * DigitsValue(Unsigned(value))))
    ELSE Raises("ValueError")

\* float(value) of a stripped string: [sign] mantissa [e [sign] digits], the
\* mantissa digits with at most one point.  (inf and nan hold no point, and
\* float is only called on a value that holds one.)
PyFloat(value) ==
    LET body == Lower(Unsigned(value))
        epos == Occurrences(body, <<"e">>)
        mant == IF epos = {} THEN body ELSE SubSeq(body, 1, SetMin(epos) - 1)
        expo == IF epos = {} THEN <<"0">>
                ELSE SubSeq(body, SetMin(epos) + 1, Len(body))
        dots == Occurrences(mant, <<".">>)
        ip   == IF dots = {} THEN mant ELSE SubSeq(mant, 1, SetMin(dots) - 1)
        fp   == IF dots = {} THEN <<>>
                ELSE SubSeq(mant, SetMin(dots) + 1, Len(mant))
        mantOk == IF dots = {} THEN DigitPart(ip)
                  ELSE \/ DigitPart(ip) /\ (fp = <<>> \/ DigitPart(fp))
                       \/ ip = <<>> /\ DigitPart(fp)
        expOk == DigitPart(Unsigned(expo))
    IN  IF mantOk /\ expOk
        THEN Returns(FloatVal(SignOf(value) * DigitsValue(ip \o fp),
                              SignOf(expo) * DigitsValue(Unsigned(expo))
                                  - NumDigits(fp)))
        ELSE Raises("ValueError")

---------------------------------------------------------------------------
(* parse_description (src/helpers/parser.py).                              *)

multiline_keys ==
    { Chars("Description"), Chars("Unique Features"), Chars("Reasons To Book"),
      Chars("Loyalty Program"), Chars("Ships In Fleet"),
      Chars("Accommodation Overview"), Chars("Cabin Types"), Chars("Deck Plans"),
      Chars("Dining Venues"), Chars("Entertainment & Activities"),
      Chars("Health & Fitness"), Chars("Accessibility & Special Needs"),
      Chars("Itinerary Details"), Chars("Available Fares") }

\* current_key = None.  None and '' are both false at line 47, and '' is
\* never assigned: no multiline key is empty.
None == <<>>

\* data = {}
EmptyDict == <<>>

\* data[key] = v
SetItem(d, key, v) ==
    [k \in DOMAIN d \cup {key} |-> IF k = key THEN v ELSE d[k]]

\* a loop that does not strip the line
Unstripped(l) == l

\* line 21: line = line.strip()
StrippedLine(l) == Strip(l)

\* ': ' in line
IsHeader(line) == Contains(line, Chars(": "))

\* key, value = line.split(': ', 1), both stripped
\* a split at the last ': ' instead of the first
SplitHeaderLast(line) ==
    LET i == SetMax(Occurrences(line, Chars(": ")))
    IN  <<SubSeq(line, 1, i - 1), SubSeq(line, i + 2, Len(line))>>

SplitHeader(line) == SplitOnce(line, Chars(": "))
HeaderKey(line)   == Strip(SplitHeader(line)[1])
HeaderValue(line) == Strip(SplitHeader(line)[2])

\* a try block that only ever tries int
TryIntOnly(value) == PyInt(value)

\* the try block: float(value) if '.' in value else int(value)
TryNumeric(value) ==
    IF Contains(value, <<".">>) THEN PyFloat(value) ELSE PyInt(value)

\* a handler for another exception
HandlesTypeError(exc) == exc = "TypeError"

\* except ValueError
Handles(exc) == exc = "ValueError"

\* lines 33-45: the value a non-multiline header stores, or the exception
\* that leaves the function
Coerce(value) ==
    IF Lower(value) = Chars("true") THEN Returns(BoolVal(TRUE))
    ELSE IF Lower(value) = Chars("false") THEN Returns(BoolVal(FALSE))
    ELSE LET r == TryNumeric(value)
         IN  IF r.exc # "" /\ Handles(r.exc) THEN Returns(StrVal(value)) ELSE r

\* a multiline header that coerces like the others
MultilineCoerced(value) == Coerce(value).val

\* the value a multiline header stores
MultilineValue(value) == StrVal(value)

\* isinstance(data.get(current_key), str)
IsStrAt(d, key) == key \in DOMAIN d /\ d[key].t = "str"

\* a continuation joined without the space
ContinueNoSpace(d, ck, line) ==
    IF ck # None /\ IsStrAt(d, ck)
    THEN SetItem(d, ck, StrVal(d[ck].s \o Strip(line)))
    ELSE d

\* lines 46-48: the mapping after a line without ': '
Continue(d, ck, line) ==
    IF ck # None /\ IsStrAt(d, ck)
    THEN SetItem(d, ck, StrVal(d[ck].s \o <<" ">> \o Strip(line)))
    ELSE d

\* one iteration of the loop on the stripped, non-blank line: the new
\* [data, current_key], or the exception raised
ParseLine(d, ck, line) ==
    IF IsHeader(line)
    THEN LET key == HeaderKey(line)
             value == HeaderValue(line)
         IN  IF key \in multiline_keys
             THEN [exc |-> "", data |-> SetItem(d, key, MultilineValue(value)),
                   current_key |-> key]
             ELSE LET r == Coerce(value)
                  IN  IF r.exc = ""
                      THEN [exc |-> "", data |-> SetItem(d, key, r.val),
                            current_key |-> ck]
                      ELSE [exc |-> r.exc, data |-> d, current_key |-> ck]
    ELSE [exc |-> "", data |-> Continue(d, ck, line), current_key |-> ck]

\* the whole loop from line k on, as one function (for callers of the parser)
RECURSIVE ParseFrom(_, _, _, _)
ParseFrom(ls, k, d, ck) ==
    IF k > Len(ls) THEN [exc |-> "", data |-> d]
    ELSE LET line == StrippedLine(ls[k])
         IN  IF line = <<>> THEN ParseFrom(ls, k + 1, d, ck)
             ELSE LET r == ParseLine(d, ck, line)
                  IN  IF r.exc # "" THEN [exc |-> r.exc, data |-> d]
                      ELSE ParseFrom(ls, k + 1, r.data, r.current_key)

parse_description(text) ==
    ParseFrom(Split(Strip(text), <<"\n">>), 1, EmptyDict, None)

NoOutcome == [kind |-> "none"]

\* lines 13-20: data = {}, current_key = None, the lines of the stripped text
ParseBegin ==
    /\ pc = "parse_call"
    /\ lines' = Split(Strip(description), <<"\n">>)
    /\ idx' = 1
    /\ data' = EmptyDict
    /\ current_key' = None
    /\ pc' = "parse_loop"
    /\ UNCHANGED <<request, description, serviceVars, outcome>>

AtLine == pc = "parse_loop" /\ idx <= Len(lines)

\* the branch the loop takes on the line it is at
AtBlank == AtLine /\ StrippedLine(lines[idx]) = <<>>
AtHeader ==
    AtLine /\ StrippedLine(lines[idx]) # <<>> /\ IsHeader(StrippedLine(lines[idx]))
AtMultilineHeader ==
    AtHeader /\ HeaderKey(StrippedLine(lines[idx])) \in multiline_keys
AtOtherHeader ==
    AtHeader /\ HeaderKey(StrippedLine(lines[idx])) \notin multiline_keys
AtBareLine ==
    AtLine /\ StrippedLine(lines[idx]) # <<>> /\ ~IsHeader(StrippedLine(lines[idx]))
AtEnd == pc = "parse_loop" /\ idx > Len(lines)

\* lines 21-23: a blank line is skipped
SkipBlank ==
    /\ AtBlank
    /\ idx' = idx + 1
    /\ UNCHANGED <<pc, request, description, lines, data, current_key, serviceVars, outcome>>

\* lines 24-30: a header whose key is a multiline key
HeaderMultiline ==
    /\ AtMultilineHeader
    /\ data' = SetItem(data, HeaderKey(StrippedLine(lines[idx])),
                       MultilineValue(HeaderValue(StrippedLine(lines[idx]))))
    /\ current_key' = HeaderKey(StrippedLine(lines[idx]))
    /\ idx' = idx + 1
    /\ UNCHANGED <<pc, request, description, lines, serviceVars, outcome>>

\* lines 24-27, 31-45: any other header
HeaderCoerce ==
    /\ AtOtherHeader
    /\ LET r == Coerce(HeaderValue(StrippedLine(lines[idx])))
       IN  IF r.exc = ""
           THEN /\ data' = SetItem(data, HeaderKey(StrippedLine(lines[idx])), r.val)
                /\ idx' = idx + 1
                /\ UNCHANGED <<pc, outcome>>
           ELSE /\ pc' = "raised"
                /\ outcome' = [kind |-> "raise", exc |-> r.exc]
                /\ UNCHANGED <<data, idx>>
    /\ UNCHANGED <<request, description, lines, current_key, serviceVars>>

\* lines 46-48: a line without ': '
Continuation ==
    /\ AtBareLine
    /\ data' = Continue(data, current_key, StrippedLine(lines[idx]))
    /\ idx' = idx + 1
    /\ UNCHANGED <<pc, request, description, lines, current_key, serviceVars, outcome>>

\* line 50: return data
ParseReturn ==
    /\ AtEnd
    /\ pc' = "returned"
    /\ outcome' = [kind |-> "return", value |-> data]
    /\ UNCHANGED <<request, description, lines, idx, data, current_key, serviceVars>>

NextParse ==
    \/ ParseBegin
    \/ SkipBlank
    \/ HeaderMultiline
    \/ HeaderCoerce
    \/ Continuation
    \/ ParseReturn

---------------------------------------------------------------------------
(* The inputs of the parser.                                               *)

MaxLines == 3
MaxParts == 3

\* sequences of at most n elements of S
SeqsUpTo(S, n) == UNION {[1..k -> S] : k \in 0..n}

RECURSIVE Concat(_)
Concat(parts) == IF parts = <<>> THEN <<>> ELSE parts[1] \o Concat(Tail(parts))

\* lines of the kinds the parser tells apart
LineVocab ==
    { Chars(""), Chars("Description: Hello"), Chars("world"),
      Chars("  Foo: 3  "), Chars("Qux: hello"), Chars("Key:value"),
      Chars("Description:"), Chars("Cabin Types: true"),
      Chars("Cabin Types: "), Chars("Price: 10.5.5"), Chars("Key: a: b"),
      Chars("Deck Plans:") }

LineTexts == {Join(<<"\n">>, ls) : ls \in SeqsUpTo(LineVocab, MaxLines)}

\* the examples of the specification
ExampleTexts ==
    { Chars("Foo: 3\nBar: 2.5\nBaz: true\nQux: hello"),
      Chars("Description: Hello\nworld"),
      Chars("   \n  \n"), Chars("Key: a: b"), Chars("Price: 10.5.5") }

\* one line, key + separator + value, the value built from parts; alone or
\* after a line that opens a multiline field
ValueParts ==
    { Chars("true"), Chars("False"), Chars("1"), Chars("5"), Chars("."),
      Chars("-"), Chars(": "), Chars("x") }
Openers == {Chars(""), Chars("Description: Hello\n")}
KeyParts == {Chars("Qux"), Chars("Deck Plans")}
Separators == {Chars(": "), Chars(":")}

ValueTexts ==
    { o \o k \o sep \o Concat(v) :
        o \in Openers, k \in KeyParts, sep \in Separators,
        v \in SeqsUpTo(ValueParts, MaxParts) }

Descriptions == LineTexts \cup ExampleTexts \cup ValueTexts

Init ==
    /\ pc = "parse_call"
    /\ request = [op |-> "parse_description"]
    /\ description \in Descriptions
    /\ lines = <<>>
    /\ idx = 0
    /\ data = EmptyDict
    /\ current_key = None
    /\ rag = <<>>
    /\ queries = <<>>
    /\ raw_results = <<>>
    /\ outcome = NoOutcome

Spec == Init /\ [][NextParse]_vars

---------------------------------------------------------------------------
(* CruiseRAG ingestion (src/lightrag/CruiseRag.py).  A dict is a function  *)
(* from its keys; a scalar is a value record, a list a sequence.           *)

NoneVal == [t |-> "none", s |-> <<>>, n |-> 0, e |-> 0]

RECURSIVE NatToStr(_)
NatToStr(n) ==
    IF n < 10 THEN <<Digits[n + 1]>>
    ELSE NatToStr(n \div 10) \o <<Digits[(n % 10) + 1]>>

\* str(n) of an int
IntToStr(n) == IF n < 0 THEN <<"-">> \o NatToStr(-n) ELSE NatToStr(n)

RECURSIVE Zeros(_)
Zeros(k) == IF k <= 0 THEN <<>> ELSE <<"0">> \o Zeros(k - 1)

\* str(x) of a float n * 10^e in positional notation
FloatToStr(n, e) ==
    LET mag == IF n < 0 THEN -n ELSE n
        sign == IF n < 0 THEN <<"-">> ELSE <<>>
        ds == NatToStr(mag)
    IN  IF e >= 0 THEN sign \o ds \o Zeros(e) \o Chars(".0")
        ELSE LET padded == Zeros((1 - e) - Len(ds)) \o ds
                 cut == Len(padded) + e
             IN  sign \o SubSeq(padded, 1, cut) \o <<".">>
                      \o SubSeq(padded, cut + 1, Len(padded))

\* the text an f-string puts for a scalar
PyStr(v) ==
    CASE v.t = "str" -> v.s
      [] v.t = "int" -> IntToStr(v.n)
      [] v.t = "bool" -> IF v.n = 1 THEN Chars("True") ELSE Chars("False")
      [] v.t = "float" -> FloatToStr(v.n, v.e)
      [] OTHER -> Chars("None")

\* bool(v) of a scalar
Truthy(v) ==
    CASE v.t = "str" -> v.s # <<>>
      [] v.t = "none" -> FALSE
      [] OTHER -> v.n # 0

\* d.get(key, default)
Get(d, key, default) == IF key \in DOMAIN d THEN d[key] ELSE default

\* html.unescape, for the entities of the inputs
Entities ==
    { <<Chars("&amp;"), "&">>, <<Chars("&lt;"), "<">>, <<Chars("&gt;"), ">">> }

RECURSIVE Unescape(_)
Unescape(s) ==
    IF s = <<>> THEN <<>>
    ELSE IF \E en \in Entities : Len(en[1]) <= Len(s) /\ SubSeq(s, 1, Len(en[1])) = en[1]
         THEN LET en == CHOOSE x \in Entities :
                          Len(x[1]) <= Len(s) /\ SubSeq(s, 1, Len(x[1])) = x[1]
              IN  <<en[2]>> \o Unescape(SubSeq(s, Len(en[1]) + 1, Len(s)))
         ELSE <<s[1]>> \o Unescape(Tail(s))

\* the result of a formatting function: the text, or the key a subscript missed
Formatted(text) == [exc |-> "", key |-> "", text |-> text]
MissingKey(k)   == [exc |-> "KeyError", key |-> k, text |-> <<>>]

\* the first key of order that d lacks, or ""
FirstMissing(order, d) ==
    LET miss == {i \in 1..Len(order) : order[i] \notin DOMAIN d}
    IN  IF miss = {} THEN "" ELSE order[SetMin(miss)]

\* "\n".join(formatted) where each block came from fmt, or the first KeyError
RECURSIVE JoinBlocks(_, _)
JoinBlocks(blocks, k) ==
    IF k > Len(blocks) THEN Formatted(<<>>)
    ELSE IF blocks[k].exc # "" THEN blocks[k]
    ELSE LET rest == JoinBlocks(blocks, k + 1)
         IN  IF rest.exc # "" THEN rest
             ELSE IF k = Len(blocks) THEN blocks[k]
             ELSE Formatted(blocks[k].text \o <<"\n">> \o rest.text)

\* _safe_get(data, key): the value when it is a str, an int or a float
safe_get(d, key) ==
    LET value == Get(d, key, StrVal(<<>>))
    IN  IF value.t \in {"str", "int", "bool", "float"} THEN value ELSE StrVal(<<>>)

\* _format_fleet: one block per ship
FleetBlock(ship) ==
    IF FirstMissing(<<"name", "id">>, ship) # ""
    THEN MissingKey(FirstMissing(<<"name", "id">>, ship))
    ELSE Formatted(Chars("\n            Ship: ") \o PyStr(ship["name"])
                   \o Chars("\n            ID: ") \o PyStr(ship["id"])
                   \o Chars("\n            "))

format_fleet(ships) ==
    JoinBlocks([i \in 1..Len(ships) |-> FleetBlock(ships[i])], 1)

\* _format_detailed_itinerary: one block per stop
StopBlock(stop) ==
    LET port == Get(stop, "port", <<>>)
        summary == safe_get(port, "summary")
    IN  Formatted(
          Chars("\n            Day ") \o PyStr(safe_get(stop, "day"))
          \o Chars(": ") \o PyStr(safe_get(port, "name"))
          \o Chars(", ") \o PyStr(safe_get(port, "country"))
          \o Chars("\n            Port Code: ") \o PyStr(safe_get(port, "unlocode"))
          \o Chars("\n            Location: ") \o PyStr(safe_get(port, "latitude"))
          \o Chars(", ") \o PyStr(safe_get(port, "longitude"))
          \o Chars("\n            Arrival: ") \o PyStr(safe_get(stop, "arrives_on"))
          \o Chars("\n            Departure: ") \o PyStr(safe_get(stop, "departs_on"))
          \o Chars("\n            About: ") \o Unescape(PyStr(summary))
          \o Chars("\n            Programme: ") \o PyStr(safe_get(stop, "programme"))
          \o Chars("\n            Notes: ") \o PyStr(safe_get(stop, "notes"))
          \o Chars("\n            "))

format_detailed_itinerary(itinerary) ==
    IF itinerary = <<>> THEN Formatted(Chars("No itinerary details available."))
    ELSE JoinBlocks([i \in 1..Len(itinerary) |-> StopBlock(itinerary[i])], 1)

\* _format_fares: one block per fare that has a price
FareBlock(fare) ==
    IF FirstMissing(<<"grade_name", "grade_code">>, fare) # ""
    THEN MissingKey(FirstMissing(<<"grade_name", "grade_code">>, fare))
    ELSE Formatted(
          Chars("\n                Grade: ") \o PyStr(fare["grade_name"])
          \o Chars(" (") \o PyStr(fare["grade_code"]) \o Chars(")")
          \o Chars("\n                Base Price: $") \o PyStr(fare["price"])
          \o Chars("\n                Single Price: $")
          \o PyStr(Get(fare, "price_single", StrVal(Chars("N/A"))))
          \o Chars("\n                Flight Price: $")
          \o PyStr(Get(fare, "flight_price", StrVal(Chars("N/A"))))
          \o Chars("\n                3rd/4th Guest Price: $")
          \o PyStr(Get(fare, "price_3_4_pax", StrVal(Chars("N/A"))))
          \o Chars("\n                Flight Price (3rd/4th): $")
          \o PyStr(Get(fare, "flight_price_3_4_pax", StrVal(Chars("N/A"))))
          \o Chars("\n                Availability: ")
          \o PyStr(Get(fare, "availability", StrVal(<<>>)))
          \o Chars("\n                Non-Comm Charges: $")
          \o PyStr(Get(fare, "non_comm_charges", IntVal(0)))
          \o Chars("\n                "))

format_fares(fares) ==
    LET priced == SelectSeq(fares, LAMBDA f : Truthy(Get(f, "price", NoneVal)))
    IN  JoinBlocks([i \in 1..Len(priced) |-> FareBlock(priced[i])], 1)

\* _format_fare_sets: one block per fare set
FareSetBlock(fare_set) ==
    IF FirstMissing(<<"name", "deal_code">>, fare_set) # ""
    THEN MissingKey(FirstMissing(<<"name", "deal_code">>, fare_set))
    ELSE LET cabins == format_fares(Get(fare_set, "fares", <<>>))
         IN  IF cabins.exc # "" THEN cabins
             ELSE Formatted(
                   Chars("\n            Deal: ") \o PyStr(fare_set["name"])
                   \o Chars("\n            Code: ") \o PyStr(fare_set["deal_code"])
                   \o Chars("\n            Airport: ")
                   \o PyStr(Get(fare_set, "airport", StrVal(Chars("Any"))))
                   \o Chars("\n            Port Charge: $")
                   \o PyStr(Get(fare_set, "port_charge", IntVal(0)))
                   \o Chars("\n            \n            Available Cabins:\n            ")
                   \o cabins.text
                   \o Chars("\n            "))

format_fare_sets(fare_sets) ==
    JoinBlocks([i \in 1..Len(fare_sets) |-> FareSetBlock(fare_sets[i])], 1)

\* the keys of an older check, 'detailed_itinerary' among them
required_keys_with_itinerary ==
    << "name", "ref", "cruise_nights", "cruise_type", "regions",
       "starts_at", "starts_on", "ends_at", "ends_on",
       "ship_title", "operator_title", "fare_sets", "detailed_itinerary" >>

\* ingest_cruise, lines 128-132
required_keys ==
    << "name", "ref", "cruise_nights", "cruise_type", "regions",
       "starts_at", "starts_on", "ends_at", "ends_on",
       "ship_title", "operator_title", "fare_sets" >>

\* line 133: [key for key in required_keys if key not in cruise_data]
missing_keys(cruise_data) ==
    SelectSeq(required_keys, LAMBDA key : key \notin DOMAIN cruise_data)

\* lines 140-184: the description of a cruise that has the required keys, or
\* the KeyError of a fare set
CruiseDescription(cd) ==
    LET detailed_itinerary == Get(cd, "detailed_itinerary", <<>>)
        head ==
          Chars("\n        CRUISE ITINERARY\n        Name: ") \o PyStr(cd["name"])
          \o Chars("\n        Reference: ") \o PyStr(cd["ref"])
          \o Chars("\n        Duration: ") \o PyStr(cd["cruise_nights"])
          \o Chars(" nights\n        Type: ") \o Join(Chars(", "), cd["cruise_type"])
          \o Chars("\n        Regions: ") \o Join(Chars(", "), cd["regions"])
          \o Chars("\n\n        Schedule:\n        Departure: From ")
          \o PyStr(cd["starts_at"]) \o Chars(" on ") \o PyStr(cd["starts_on"])
          \o Chars("\n        Return: To ")
          \o PyStr(cd["ends_at"]) \o Chars(" on ") \o PyStr(cd["ends_on"])
          \o Chars("\n        Vacation Days: ")
          \o PyStr(Get(cd, "vacation_days", StrVal(<<>>)))
          \o Chars("\n        Hotel Nights: ") \o PyStr(Get(cd, "hotel_nights", IntVal(0)))
          \o Chars("\n        Post Cruise Stay: ")
          \o PyStr(Get(cd, "post_cruise", IntVal(0)))
          \o Chars("\n\n        Ship: ") \o PyStr(cd["ship_title"])
          \o Chars("\n        Operator: ") \o PyStr(cd["operator_title"])
          \o Chars("\n        Rating: ") \o PyStr(Get(cd, "rating", StrVal(<<>>)))
          \o Chars("\n\n        Pricing:\n        Cruise Only From: $")
          \o PyStr(Get(cd, "cruise_only_price", StrVal(<<>>)))
          \o Chars("\n        Fly Cruise From: $")
          \o PyStr(Get(cd, "fly_cruise_price", StrVal(<<>>)))
          \o Chars("\n        Inside Cabins From: $")
          \o PyStr(Get(cd, "inside_price", StrVal(<<>>)))
          \o Chars("\n        Outside Cabins From: $")
          \o PyStr(Get(cd, "outside_price", StrVal(<<>>)))
          \o Chars("\n        Balcony Cabins From: $")
          \o PyStr(Get(cd, "balcony_price", StrVal(<<>>)))
          \o Chars("\n        Suites From: $")
          \o PyStr(Get(cd, "suite_price", StrVal(<<>>)))
          \o Chars("\n\n        ")
        itin ==
          IF detailed_itinerary # <<>>
          THEN Chars("\n            Itinerary Details:\n            ")
               \o format_detailed_itinerary(detailed_itinerary).text
               \o Chars("\n            ")
          ELSE Chars("Itinerary Details: Not available.\n")
        fares == format_fare_sets(Get(cd, "fare_sets", <<>>))
    IN  IF fares.exc # "" THEN fares
        ELSE Formatted(
               head \o itin
               \o Chars("\n        Available Fares:\n        ") \o fares.text
               \o Chars("\n\n        Departure Airports: ")
               \o Join(Chars(", "), Get(cd, "airports", <<>>))
               \o Chars("\n        "))

\* ingest_cruise_line: the keys the template subscripts, in its order
line_subscripts ==
    <<"title", "description", "unique_text", "reasons_to_book", "members_club">>

\* lines 29-52: the description of a cruise line, or the KeyError of the first
\* subscript that misses
CruiseLineDescription(ld) ==
    IF FirstMissing(line_subscripts, ld) # ""
    THEN MissingKey(FirstMissing(line_subscripts, ld))
    ELSE LET fleet == format_fleet(Get(ld, "ships", <<>>))
         IN  IF fleet.exc # "" THEN fleet
             ELSE Formatted(
                   Chars("\n        CRUISE LINE INFORMATION\n        Name: ")
                   \o PyStr(ld["title"])
                   \o Chars("\n        \n        Description:\n        ")
                   \o Unescape(PyStr(ld["description"]))
                   \o Chars("\n        \n        Unique Features:\n        ")
                   \o Unescape(PyStr(ld["unique_text"]))
                   \o Chars("\n        \n        Reasons To Book:\n        ")
                   \o Unescape(PyStr(ld["reasons_to_book"]))
                   \o Chars("\n        \n        Loyalty Program:\n        ")
                   \o Unescape(PyStr(ld["members_club"]))
                   \o Chars("\n\n        Ships In Fleet:\n        ") \o fleet.text
                   \o Chars("\n\n        Social Media:\n        - Website: ")
                   \o PyStr(Get(ld, "website_url", StrVal(<<>>)))
                   \o Chars("\n        - Twitter: ")
                   \o PyStr(Get(ld, "twitter_url", StrVal(<<>>)))
                   \o Chars("\n        - Facebook: ")
                   \o PyStr(Get(ld, "facebook_url", StrVal(<<>>)))
                   \o Chars("\n        "))

\* what a call that raised reports: the exception, the keys it names, and
\* whether it came from the check before formatting or from the template
Raised(exc, keys, stage) ==
    [kind |-> "raise", exc |-> exc, keys |-> keys, stage |-> stage]

Returned == [kind |-> "return"]

\* ingest_cruise, lines 122-186
IngestCruise ==
    /\ pc = "ingest_call"
    /\ request.op = "ingest_cruise"
    /\ LET arg == request.arg
       IN  IF arg.t # "dict"
           THEN /\ pc' = "raised"
                /\ outcome' = Raised("TypeError", <<>>, "check")
                /\ rag' = rag
           ELSE IF missing_keys(arg.items) # <<>>
           THEN /\ pc' = "raised"
                /\ outcome' = Raised("KeyError", missing_keys(arg.items), "check")
                /\ rag' = rag
           ELSE LET d == CruiseDescription(arg.items)
                IN  IF d.exc # ""
                    THEN /\ pc' = "raised"
                         /\ outcome' = Raised(d.exc, <<d.key>>, "template")
                         /\ rag' = rag
                    ELSE /\ pc' = "ingested"
                         /\ outcome' = Returned
                         /\ rag' = Append(rag, d.text)
    /\ UNCHANGED <<request, parserVars, queries, raw_results>>

\* ingest_cruise_line, lines 27-54
IngestCruiseLine ==
    /\ pc = "ingest_call"
    /\ request.op = "ingest_cruise_line"
    /\ LET d == CruiseLineDescription(request.arg.items)
       IN  IF d.exc # ""
           THEN /\ pc' = "raised"
                /\ outcome' = Raised(d.exc, <<d.key>>, "template")
                /\ rag' = rag
           ELSE /\ pc' = "ingested"
                /\ outcome' = Returned
                /\ rag' = Append(rag, d.text)
    /\ UNCHANGED <<request, parserVars, queries, raw_results>>

NextIngest == IngestCruise \/ IngestCruiseLine

---------------------------------------------------------------------------
(* The inputs of ingestion.                                                *)

Restrict(d, keys) == [k \in keys |-> d[k]]

With(d, key, v) == [k \in DOMAIN d \cup {key} |-> IF k = key THEN v ELSE d[k]]

Dict(items) == [t |-> "dict", items |-> items]
NotADict == [t |-> "list", items |-> <<>>]

SampleFare ==
    [ price |-> IntVal(999), grade_name |-> StrVal(Chars("Inside")),
      grade_code |-> StrVal(Chars("IN")) ]

SampleFareSet ==
    [ name |-> StrVal(Chars("Saver")), deal_code |-> StrVal(Chars("S1")),
      fares |-> <<SampleFare>> ]

SampleStop ==
    [ day |-> IntVal(1),
      port |-> [ name |-> StrVal(Chars("Bergen")), country |-> StrVal(Chars("Norway")),
                 summary |-> StrVal(Chars("Fjords &amp; falls")), unlocode |-> NoneVal ],
      departs_on |-> StrVal(Chars("2024-06-02")) ]

SampleCruise ==
    [ name |-> StrVal(Chars("Fjords")), ref |-> StrVal(Chars("R1")),
      cruise_nights |-> IntVal(7), cruise_type |-> <<Chars("Ocean")>>,
      regions |-> <<Chars("Europe"), Chars("Baltic")>>,
      starts_at |-> StrVal(Chars("Miami")), starts_on |-> StrVal(Chars("2024-06-01")),
      ends_at |-> StrVal(Chars("Oslo")), ends_on |-> StrVal(Chars("2024-06-08")),
      ship_title |-> StrVal(Chars("Sky")), operator_title |-> StrVal(Chars("Viking")),
      fare_sets |-> <<>>,
      cruise_only_price |-> FloatVal(12995, -1), hotel_nights |-> IntVal(2) ]

\* the sample with any of its keys left out, and complete samples with an
\* itinerary, fare sets, and a fare set that lacks its deal code
CruiseInputs ==
    {Dict(Restrict(SampleCruise, K)) : K \in SUBSET DOMAIN SampleCruise}
    \cup {Dict(With(SampleCruise, "detailed_itinerary", it)) :
            it \in {<<>>, <<SampleStop>>, <<SampleStop, SampleStop>>}}
    \cup {Dict(With(With(SampleCruise, "detailed_itinerary", <<SampleStop>>),
                    "fare_sets", fs)) :
            fs \in {<<SampleFareSet>>, <<SampleFareSet, SampleFareSet>>,
                    <<Restrict(SampleFareSet, {"name"})>>}}
    \cup {NotADict}

SampleShip == [name |-> StrVal(Chars("Sky")), id |-> IntVal(12)]

SampleLine ==
    [ title |-> StrVal(Chars("Viking")),
      description |-> StrVal(Chars("Small ships &amp; calm seas")),
      unique_text |-> StrVal(Chars("No casinos")),
      reasons_to_book |-> StrVal(Chars("Price: fair")),
      members_club |-> StrVal(Chars("Explorer Society")),
      ships |-> <<SampleShip>>,
      website_url |-> StrVal(Chars("https://viking.example")) ]

LineInputs ==
    {Dict(Restrict(SampleLine, K)) : K \in SUBSET DOMAIN SampleLine}
    \cup {Dict(With(SampleLine, "ships", <<SampleShip, Restrict(SampleShip, {"name"})>>))}

InitIngest ==
    /\ pc = "ingest_call"
    /\ \/ \E cd \in CruiseInputs : request = [op |-> "ingest_cruise", arg |-> cd]
       \/ \E ld \in LineInputs : request = [op |-> "ingest_cruise_line", arg |-> ld]
    /\ description = <<>>
    /\ lines = <<>>
    /\ idx = 0
    /\ data = EmptyDict
    /\ current_key = None
    /\ rag = <<>>
    /\ queries = <<>>
    /\ raw_results = <<>>
    /\ outcome = NoOutcome

SpecIngest == InitIngest /\ [][NextIngest]_vars

---------------------------------------------------------------------------
(* CruiseRAG.search (src/lightrag/CruiseRag.py, lines 188-245).            *)

\* the characters of the inputs in code point order (quote, backslash and
\* backquote, which no input holds, are left out)
CodeOrder ==
    Chars("\t\n !#$%&'()*+,-./0123456789:;<=>?@ABCDEFGHIJKLMNOPQRSTUVWXYZ[]^_abcdefghijklmnopqrstuvwxyz{|}~")

Ord(c) == CHOOSE i \in 1..Len(CodeOrder) : CodeOrder[i] = c

\* a <= b of two str: lexicographic by code point
RECURSIVE StrLe(_, _)
StrLe(a, b) ==
    IF a = <<>> THEN TRUE
    ELSE IF b = <<>> THEN FALSE
    ELSE IF a[1] = b[1] THEN StrLe(Tail(a), Tail(b))
    ELSE Ord(a[1]) < Ord(b[1])

RECURSIVE Pow10(_)
Pow10(k) == IF k <= 0 THEN 1 ELSE 10 * Pow10(k - 1)

IsNumber(v) == v.t \in {"bool", "int", "float"}

\* a <= b of two numbers n * 10^e (a bool counts as 0 or 1)
NumLe(a, b) ==
    LET m == IF a.e < b.e THEN a.e ELSE b.e
    IN  a.n * Pow10(a.e - m) <= b.n * Pow10(b.e - m)

\* a <= b: an order within str and within numbers, TypeError across them
PyLe(a, b) ==
    IF a.t = "str" /\ b.t = "str" THEN [exc |-> "", val |-> StrLe(a.s, b.s)]
    ELSE IF IsNumber(a) /\ IsNumber(b) THEN [exc |-> "", val |-> NumLe(a, b)]
    ELSE [exc |-> "TypeError", val |-> FALSE]

\* a == b: never raises; numbers compare by value, a str only equals a str
PyEq(a, b) ==
    IF a.t = "str" /\ b.t = "str" THEN a.s = b.s
    ELSE IF IsNumber(a) /\ IsNumber(b) THEN NumLe(a, b) /\ NumLe(b, a)
    ELSE FALSE

\* lo <= v <= hi: (lo <= v) and (v <= hi), the second only when the first holds
Between(lo, v, hi) ==
    LET first == PyLe(lo, v)
    IN  IF first.exc # "" \/ ~first.val THEN first ELSE PyLe(v, hi)

\* v.split(', ')[-1] in allowed, AttributeError when v is no str
LastIn(v, allowed) ==
    IF v.t # "str" THEN [exc |-> "AttributeError", val |-> FALSE]
    ELSE LET parts == Split(v.s, Chars(", "))
         IN  [exc |-> "", val |-> \E i \in 1..Len(allowed) :
                                    allowed[i] = parts[Len(parts)]]

\* lines 226-231: the six conditions on one parsed result, in order
Conditions(result, p) ==
    << Between(p.departure_date_lower,
               Get(result, Chars("Departure Date"), StrVal(<<>>)),
               p.departure_date_upper),
       Between(p.duration_lower, Get(result, Chars("Duration"), IntVal(0)),
               p.duration_upper),
       Between(p.price_lower, Get(result, Chars("Cruise Only From"), IntVal(0)),
               p.price_upper),
       LastIn(Get(result, Chars("Cruise Lines"), StrVal(<<>>)), p.cruise_lines),
       LastIn(Get(result, Chars("Departure Ports"), StrVal(<<>>)), p.departure_ports),
       [exc |-> "",
        val |-> PyEq(Get(result, Chars("Adults Only"), BoolVal(FALSE)), p.adults_only)] >>

\* c1 and c2 and ...: the first condition that is false or raises decides
RECURSIVE AndChain(_, _)
AndChain(conds, k) ==
    IF k > Len(conds) THEN [exc |-> "", val |-> TRUE]
    ELSE IF conds[k].exc # "" \/ ~conds[k].val THEN conds[k]
    ELSE AndChain(conds, k + 1)

Accepts(result, p) == AndChain(Conditions(result, p), 1)

\* lines 224-232: the results kept, in order, or the first exception
RECURSIVE Filter(_, _, _)
Filter(parsed, p, k) ==
    IF k > Len(parsed) THEN [exc |-> "", results |-> <<>>]
    ELSE LET a == Accepts(parsed[k], p)
         IN  IF a.exc # "" THEN [exc |-> a.exc, results |-> <<>>]
             ELSE LET rest == Filter(parsed, p, k + 1)
                  IN  IF rest.exc # "" THEN rest
                      ELSE [exc |-> "",
                            results |-> IF a.val THEN <<parsed[k]>> \o rest.results
                                        ELSE rest.results]

\* the query string alone, without the parameters around it
RawQueryText(p) == PyStr(p.query)

\* lines 204-213: the text of the search parameters
SearchQueryText(p) ==
    Chars("\n        SEARCH CRUISES\n        Query: ") \o PyStr(p.query)
    \o Chars("\n        Departure Date Range: ") \o PyStr(p.departure_date_lower)
    \o Chars(" to ") \o PyStr(p.departure_date_upper)
    \o Chars("\n        Duration: ") \o PyStr(p.duration_lower)
    \o Chars(" to ") \o PyStr(p.duration_upper)
    \o Chars(" nights\n        Price Range: $") \o PyStr(p.price_lower)
    \o Chars(" to $") \o PyStr(p.price_upper)
    \o Chars("\n        Cruise Lines: ") \o Join(Chars(", "), p.cruise_lines)
    \o Chars("\n        Departure Ports: ") \o Join(Chars(", "), p.departure_ports)
    \o Chars("\n        Adults Only: ") \o PyStr(p.adults_only)
    \o Chars("\n        ")

\* lines 238-243
FiltersApplied(p) ==
    [ departure_date |-> PyStr(p.departure_date_lower) \o Chars(" to ")
                           \o PyStr(p.departure_date_upper),
      duration |-> PyStr(p.duration_lower) \o Chars(" to ")
                     \o PyStr(p.duration_upper) \o Chars(" nights"),
      price |-> <<"$">> \o PyStr(p.price_lower) \o Chars(" to $")
                  \o PyStr(p.price_upper),
      cruise_lines |-> p.cruise_lines,
      departure_ports |-> p.departure_ports,
      adults_only |-> p.adults_only ]

\* the texts the external service may answer a query with
FacetLines ==
    << {Chars(""), Chars("Departure Date: 2024-06-15"), Chars("Departure Date: 20240615")},
       {Chars(""), Chars("Duration: 7"), Chars("Duration: 7 nights"),
        Chars("Duration: 7.5")},
       {Chars(""), Chars("Cruise Only From: 1500"), Chars("Cruise Only From: $1500"),
        Chars("Cruise Only From: 1299.5"), Chars("Cruise Only From: true")},
       {Chars(""), Chars("Cruise Lines: Viking"), Chars("Cruise Lines: MSC, Viking"),
        Chars("Cruise Lines: 5")},
       {Chars(""), Chars("Departure Ports: Miami"), Chars("Departure Ports: 2.5")},
       {Chars(""), Chars("Adults Only: True"), Chars("Adults Only: 1"),
        Chars("Adults Only: false"), Chars("Adults Only: no")} >>

ResultTexts ==
    { Join(<<"\n">>, <<a, b, c, d, e, f>>) :
        a \in FacetLines[1], b \in FacetLines[2], c \in FacetLines[3],
        d \in FacetLines[4], e \in FacetLines[5], f \in FacetLines[6] }

GoodResult ==
    Chars("Departure Date: 2024-06-15\nDuration: 7\nCruise Only From: 1299.5\nCruise Lines: MSC, Viking\nDeparture Ports: Miami\nAdults Only: True")

ServiceAnswers ==
    {<<>>} \cup {<<t>> : t \in ResultTexts}
    \cup { <<GoodResult, t>> :
             t \in {GoodResult, Chars("Duration: 7 nights"), Chars("Adults Only: no")} }

\* the await of a call into the external service: it answers or it raises
ServiceOutcomes == {"ok", "error"}

\* lines 204-215: the parameters are formatted and inserted
SearchInsert ==
    /\ pc = "search_call"
    /\ request.op = "search"
    /\ \E o \in ServiceOutcomes :
         IF o = "ok"
         THEN /\ rag' = Append(rag, SearchQueryText(request.arg))
              /\ pc' = "search_inserted"
              /\ outcome' = outcome
         ELSE /\ rag' = rag
              /\ pc' = "raised"
              /\ outcome' = Raised("ServiceError", <<>>, "insert")
    /\ UNCHANGED <<request, parserVars, queries, raw_results>>

\* line 218: the query is issued with the raw query string
SearchQuery ==
    /\ pc = "search_inserted"
    /\ queries' = Append(queries, request.arg.query)
    /\ \E o \in ServiceOutcomes :
         IF o = "ok"
         THEN /\ \E answer \in ServiceAnswers : raw_results' = answer
              /\ pc' = "search_queried"
              /\ outcome' = outcome
         ELSE /\ raw_results' = raw_results
              /\ pc' = "raised"
              /\ outcome' = Raised("ServiceError", <<>>, "query")
    /\ UNCHANGED <<request, parserVars, rag>>

\* line 221: every raw result is parsed, in order
RECURSIVE ParseAll(_, _)
ParseAll(rs, k) ==
    IF k > Len(rs) THEN <<>>
    ELSE <<parse_description(rs[k])>> \o ParseAll(rs, k + 1)

\* lines 221-245: the results are parsed and filtered, and the answer returned
SearchFilter ==
    /\ pc = "search_queried"
    /\ \E parses \in {ParseAll(raw_results, 1)} :
       \E kept \in {Filter([i \in 1..Len(parses) |-> parses[i].data], request.arg, 1)} :
         IF \E i \in 1..Len(parses) : parses[i].exc # ""
         THEN /\ pc' = "raised"
              /\ outcome' = Raised(parses[SetMin({i \in 1..Len(parses) :
                                                      parses[i].exc # ""})].exc,
                                   <<>>, "parse")
         ELSE IF kept.exc # ""
         THEN /\ pc' = "raised"
              /\ outcome' = Raised(kept.exc, <<>>, "filter")
         ELSE /\ pc' = "returned"
              /\ outcome' = [ kind |-> "return",
                              query |-> request.arg.query,
                              results |-> kept.results,
                              filters_applied |-> FiltersApplied(request.arg) ]
    /\ UNCHANGED <<request, parserVars, rag, queries, raw_results>>

NextSearch == SearchInsert \/ SearchQuery \/ SearchFilter

\* the parameters of the demo, and variations of each bound
DemoParams ==
    [ query |-> StrVal(Chars("luxury cruise")),
      departure_date_lower |-> StrVal(Chars("2024-06-01")),
      departure_date_upper |-> StrVal(Chars("2024-08-31")),
      duration_lower |-> IntVal(7), duration_upper |-> IntVal(14),
      price_lower |-> FloatVal(1000, 0), price_upper |-> FloatVal(3000, 0),
      cruise_lines |-> <<Chars("Viking"), Chars("Norwegian")>>,
      departure_ports |-> <<Chars("Miami"), Chars("Fort Lauderdale")>>,
      adults_only |-> BoolVal(TRUE) ]

SearchInputs ==
    { DemoParams,
      [DemoParams EXCEPT !.departure_date_lower = StrVal(<<>>),
                         !.duration_lower = IntVal(0),
                         !.price_lower = FloatVal(0, 0),
                         !.adults_only = BoolVal(FALSE)],
      [DemoParams EXCEPT !.departure_date_upper = StrVal(Chars("2024-06-10"))],
      [DemoParams EXCEPT !.cruise_lines = <<>>, !.departure_ports = <<Chars("")>>] }

InitSearch ==
    /\ pc = "search_call"
    /\ \E p \in SearchInputs : request = [op |-> "search", arg |-> p]
    /\ description = <<>>
    /\ lines = <<>>
    /\ idx = 0
    /\ data = EmptyDict
    /\ current_key = None
    /\ rag = <<>>
    /\ queries = <<>>
    /\ raw_results = <<>>
    /\ outcome = NoOutcome

SpecSearch == InitSearch /\ [][NextSearch]_vars

---------------------------------------------------------------------------
(* Several calls of search, one after the other, on the same service.      *)

MaxSearches == 2

\* a caller whose search has ended calls search again (line 188): the new
\* call starts with no raw_results and no outcome, the service keeps what it
\* was given; request.call numbers the calls and request.returned counts
\* those that returned
SearchAgain ==
    /\ pc \in {"returned", "raised"}
    /\ request.op = "search"
    /\ request.call < MaxSearches
    /\ pc' = "search_call"
    /\ request' = [request EXCEPT !.call = @ + 1,
                                  !.returned = IF pc = "returned" THEN @ + 1 ELSE @]
    /\ raw_results' = <<>>
    /\ outcome' = NoOutcome
    /\ UNCHANGED <<parserVars, rag, queries>>

NextSearches == SearchInsert \/ SearchQuery \/ SearchFilter \/ SearchAgain

InitSearches ==
    /\ pc = "search_call"
    /\ request = [op |-> "search", arg |-> DemoParams, call |-> 1, returned |-> 0]
    /\ description = <<>>
    /\ lines = <<>>
    /\ idx = 0
    /\ data = EmptyDict
    /\ current_key = None
    /\ rag = <<>>
    /\ queries = <<>>
    /\ raw_results = <<>>
    /\ outcome = NoOutcome

SpecSearches == InitSearches /\ [][NextSearches]_vars

---------------------------------------------------------------------------
(* Properties of parse_description.                                        *)

\* the stripped line the loop is at
CurLine == Strip(lines[idx])

\* a step of the loop on a non-blank line
OnLine == pc = "parse_loop" /\ idx <= Len(lines) /\ CurLine # <<>>

ColonSpace == Chars(": ")

\* the text before and after the first ': ' of a line that holds one
FirstCut(line) == SetMin(Occurrences(line, ColonSpace))
KeyOf(line)  == Strip(SubSeq(line, 1, FirstCut(line) - 1))
RestOf(line) == Strip(SubSeq(line, FirstCut(line) + 2, Len(line)))

\* the key of the last multiline header among the first k lines, or None
LastOpened(k) ==
    LET hs == {j \in 1..k : /\ Contains(Strip(lines[j]), ColonSpace)
                            /\ KeyOf(Strip(lines[j])) \in multiline_keys}
    IN  IF hs = {} THEN None ELSE KeyOf(Strip(lines[SetMax(hs)]))

\* C1: parse_description is total: whatever the text, the loop never ends in
\* an error, it can always take its next step until it has returned, and it
\* returns the mapping after the last line.
C1_ParserTotal ==
    /\ pc # "raised"
    /\ outcome.kind # "raise"
    /\ pc = "parse_loop" =>
          \/ AtBlank \/ AtMultilineHeader \/ AtOtherHeader \/ AtBareLine \/ AtEnd
    /\ pc = "returned" =>
          /\ idx = Len(lines) + 1
          /\ outcome = [kind |-> "return", value |-> data]

\* a parse that returned after a value with a point failed float()
C1_Witness ==
    /\ pc = "returned"
    /\ \E k \in DOMAIN data :
          /\ k \notin multiline_keys
          /\ data[k].t = "str"
          /\ Contains(data[k].s, <<".">>)

\* the value the priority chain gives: bool, then float if the value holds
\* a point, else int, and the string itself when the conversion fails
ChainValue(value) ==
    IF Lower(value) = Chars("true") THEN BoolVal(TRUE)
    ELSE IF Lower(value) = Chars("false") THEN BoolVal(FALSE)
    ELSE IF Contains(value, <<".">>)
         THEN IF PyFloat(value).exc = "" THEN PyFloat(value).val ELSE StrVal(value)
         ELSE IF PyInt(value).exc = "" THEN PyInt(value).val ELSE StrVal(value)

\* C2: a header whose key is not a multiline key stores under the key the
\* result of the priority chain bool, float (only with a point), int, string;
\* a value with a point that is no float is stored as the string.  The
\* examples of the specification come out as it says.
C2_CoercionChain ==
    /\ [][(OnLine /\ Contains(CurLine, ColonSpace)
              /\ KeyOf(CurLine) \notin multiline_keys)
            => /\ KeyOf(CurLine) \in DOMAIN data'
               /\ data'[KeyOf(CurLine)] = ChainValue(RestOf(CurLine))
               /\ (Contains(RestOf(CurLine), <<".">>)
                      => data'[KeyOf(CurLine)].t \in {"float", "str"})]_vars
    /\ [](pc = "returned"
            /\ description = Chars("Foo: 3\nBar: 2.5\nBaz: true\nQux: hello")
          => data = [k \in {Chars("Foo"), Chars("Bar"), Chars("Baz"), Chars("Qux")}
                      |-> IF k = Chars("Foo") THEN IntVal(3)
                          ELSE IF k = Chars("Bar") THEN FloatVal(25, -1)
                          ELSE IF k = Chars("Baz") THEN BoolVal(TRUE)
                          ELSE StrVal(Chars("hello"))])
    /\ [](pc = "returned" /\ description = Chars("Price: 10.5.5")
          => data = [k \in {Chars("Price")} |-> StrVal(Chars("10.5.5"))])

\* a float, an int, a bool and a fallen-back string were each stored
C2_Witness ==
    /\ pc = "returned"
    /\ \E k \in DOMAIN data : data[k].t = "float" /\ data[k].e < 0
    /\ \E k \in DOMAIN data : data[k].t = "int"
    /\ \E k \in DOMAIN data : data[k].t = "bool"
    /\ \E k \in DOMAIN data : data[k] = StrVal(Chars("hello"))

\* C3: a non-blank line with ': ' sets the field of its key and no other, and
\* changes current_key only when the key is a multiline key; a line without
\* ': ' is appended after one space to the last opened multiline field, however
\* many other headers came in between, and changes nothing when none is open.
C3_TwoWays ==
    [][OnLine =>
        IF Contains(CurLine, ColonSpace)
        THEN /\ DOMAIN data' = DOMAIN data \cup {KeyOf(CurLine)}
             /\ \A k \in DOMAIN data \ {KeyOf(CurLine)} : data'[k] = data[k]
             /\ current_key' = IF KeyOf(CurLine) \in multiline_keys
                               THEN KeyOf(CurLine) ELSE current_key
        ELSE /\ current_key' = current_key
             /\ current_key = LastOpened(idx - 1)
             /\ DOMAIN data' = DOMAIN data
             /\ \A k \in DOMAIN data :
                   data'[k] = IF k = LastOpened(idx - 1)
                              THEN StrVal(data[k].s \o <<" ">> \o CurLine)
                              ELSE data[k]]_vars

\* a bare line after a multiline header and another header extended the
\* multiline field
C3_Witness ==
    /\ pc = "returned"
    /\ description = Chars("Description: Hello\nQux: hello\nworld")
    /\ data[Chars("Description")] = StrVal(Chars("Hello world"))
    /\ data[Chars("Qux")] = StrVal(Chars("hello"))

\* C8: under a multiline key the mapping always holds a string: a multiline
\* header stores its value as it stands, uncoerced, so the value at
\* current_key is a string whenever current_key is set and a continuation
\* line is then always appended.
C8_MultilineIsString ==
    /\ [](/\ \A k \in DOMAIN data \cap multiline_keys : data[k].t = "str"
          /\ current_key # None =>
                /\ current_key \in multiline_keys
                /\ current_key \in DOMAIN data
                /\ data[current_key].t = "str")
    /\ [][(OnLine /\ Contains(CurLine, ColonSpace)
              /\ KeyOf(CurLine) \in multiline_keys)
            => data'[KeyOf(CurLine)] = StrVal(RestOf(CurLine))]_vars
    /\ [][(OnLine /\ ~Contains(CurLine, ColonSpace) /\ current_key # None)
            => data'[current_key].s = data[current_key].s \o <<" ">> \o CurLine]_vars

\* a multiline field whose value reads 'true' stayed a string and took the
\* continuation line
C8_Witness ==
    /\ pc = "returned"
    /\ description = Chars("Cabin Types: true\nworld")
    /\ data[Chars("Cabin Types")] = StrVal(Chars("true world"))

\* C9: a stripped line whose colons are not followed by a space is no header:
\* it adds no field, leaves current_key as it is even when the text before the
\* colon is a multiline key, and goes to the continuation branch (appended to
\* the open multiline field, dropped when none is open).
C9_ColonWithoutSpace ==
    [][(OnLine /\ Contains(CurLine, <<":">>) /\ ~Contains(CurLine, ColonSpace))
        => /\ DOMAIN data' = DOMAIN data
           /\ current_key' = current_key
           /\ idx' = idx + 1
           /\ data' = IF current_key = None THEN data
                      ELSE [data EXCEPT ![current_key] =
                              StrVal(@.s \o <<" ">> \o CurLine)]]_vars

\* the label 'Deck Plans:' alone on its line opened no field and was appended
\* to the open Description
C9_Witness ==
    /\ pc = "returned"
    /\ \E i \in 1..Len(lines) : Strip(lines[i]) = Chars("Deck Plans:")
    /\ Chars("Deck Plans") \notin DOMAIN data
    /\ current_key = Chars("Description")
    /\ data[current_key] = StrVal(Chars("Hello Deck Plans:"))

\* C10: a header is split at its first ': ' only: one field, named by the
\* stripped text before it, is set, and when further ': ' follow, they stay
\* in the stored value, which is the whole stripped remainder.
C10_FirstSplitOnly ==
    /\ [][(OnLine /\ Contains(CurLine, ColonSpace))
            => /\ DOMAIN data' = DOMAIN data \cup {KeyOf(CurLine)}
               /\ \A k \in DOMAIN data \ {KeyOf(CurLine)} : data'[k] = data[k]
               /\ (Contains(RestOf(CurLine), ColonSpace)
                     => data'[KeyOf(CurLine)] = StrVal(RestOf(CurLine)))]_vars
    /\ [](pc = "returned" /\ description = Chars("Key: a: b")
          => data = [k \in {Chars("Key")} |-> StrVal(Chars("a: b"))])

\* a value that holds ': ' was stored whole under the first key
C10_Witness ==
    /\ pc = "returned"
    /\ \E k \in DOMAIN data : Contains(data[k].s, ColonSpace) /\ k = Chars("Qux")

---------------------------------------------------------------------------
(* Properties of ingestion.                                                *)

\* the dict an ingestion call was given
Arg == request.arg.items

\* the twelve keys ingest_cruise requires
TwelveRequired ==
    { "name", "ref", "cruise_nights", "cruise_type", "regions", "starts_at",
      "starts_on", "ends_at", "ends_on", "ship_title", "operator_title",
      "fare_sets" }

\* the five keys ingest_cruise_line reads without a default
FiveRequired ==
    {"title", "description", "unique_text", "reasons_to_book", "members_club"}

\* the required keys the argument of the call lacks
AbsentRequired ==
    (IF request.op = "ingest_cruise" THEN TwelveRequired ELSE FiveRequired)
        \ DOMAIN Arg

Elements(seq) == {seq[i] : i \in 1..Len(seq)}

\* C5: ingest_cruise of a dict that lacks required keys ends in one KeyError
\* that names exactly the absent required keys, each once, raised by the check
\* before anything is formatted, and insert is never called.
C5_MissingKeysReported ==
    (/\ request.op = "ingest_cruise"
     /\ request.arg.t = "dict"
     /\ AbsentRequired # {}
     /\ pc # "ingest_call")
    => /\ pc = "raised"
       /\ outcome.kind = "raise"
       /\ outcome.exc = "KeyError"
       /\ outcome.stage = "check"
       /\ Elements(outcome.keys) = AbsentRequired
       /\ Len(outcome.keys) = Cardinality(AbsentRequired)
       /\ rag = <<>>

\* a cruise without 'ref' and 'fare_sets' was refused with both named
C5_Witness ==
    /\ pc = "raised"
    /\ request.op = "ingest_cruise"
    /\ request.arg.t = "dict"
    /\ "detailed_itinerary" \notin DOMAIN Arg
    /\ outcome.keys = <<"ref", "fare_sets">>

\* C6: an ingestion function that requires fields, called without some of
\* them, reports one error naming all the absent required fields, from a check
\* made before any formatting, never from inside the template.
C6_FailFast ==
    (/\ request.op \in {"ingest_cruise", "ingest_cruise_line"}
     /\ request.arg.t = "dict"
     /\ AbsentRequired # {}
     /\ pc # "ingest_call")
    => /\ pc = "raised"
       /\ outcome.exc = "KeyError"
       /\ outcome.stage = "check"
       /\ Elements(outcome.keys) = AbsentRequired

\* a 'Label: value' line a template emits
Emit(label, value) == [label |-> Chars(label), value |-> value]

\* the non-blank lines of a value, stripped and joined by single spaces
JoinedValue(text) ==
    LET ls == Split(text, <<"\n">>)
        stripped == [i \in 1..Len(ls) |-> Strip(ls[i])]
    IN  Join(<<" ">>, SelectSeq(stripped, LAMBDA l : l # <<>>))

\* the labelled lines ingest_cruise emits for the record and for its stops
CruiseEmitted(cd) ==
    LET itinerary == Get(cd, "detailed_itinerary", <<>>)
    IN  { Emit("Name", PyStr(cd["name"])),
          Emit("Reference", PyStr(cd["ref"])),
          Emit("Duration", PyStr(cd["cruise_nights"]) \o Chars(" nights")),
          Emit("Type", Join(Chars(", "), cd["cruise_type"])),
          Emit("Regions", Join(Chars(", "), cd["regions"])),
          Emit("Departure", Chars("From ") \o PyStr(cd["starts_at"])
                              \o Chars(" on ") \o PyStr(cd["starts_on"])),
          Emit("Return", Chars("To ") \o PyStr(cd["ends_at"])
                           \o Chars(" on ") \o PyStr(cd["ends_on"])),
          Emit("Hotel Nights", PyStr(Get(cd, "hotel_nights", IntVal(0)))),
          Emit("Ship", PyStr(cd["ship_title"])),
          Emit("Operator", PyStr(cd["operator_title"])),
          Emit("Cruise Only From",
               <<"$">> \o PyStr(Get(cd, "cruise_only_price", StrVal(<<>>)))),
          Emit("Itinerary Details",
               IF itinerary # <<>> THEN format_detailed_itinerary(itinerary).text
               ELSE Chars("Not available.")) }
        \cup UNION { { Emit("Departure", PyStr(safe_get(itinerary[i], "departs_on"))),
                       Emit("About",
                            Unescape(PyStr(safe_get(Get(itinerary[i], "port", <<>>),
                                                    "summary")))) } :
                     i \in 1..Len(itinerary) }

\* the labelled lines ingest_cruise_line emits
LineEmitted(ld) ==
    { Emit("Name", PyStr(ld["title"])),
      Emit("Description", Unescape(PyStr(ld["description"]))),
      Emit("Unique Features", Unescape(PyStr(ld["unique_text"]))),
      Emit("Reasons To Book", Unescape(PyStr(ld["reasons_to_book"]))),
      Emit("Loyalty Program", Unescape(PyStr(ld["members_club"]))) }

IsPrefix(a, b) == Len(a) <= Len(b) /\ SubSeq(b, 1, Len(a)) = a

\* C4: parsing the text an ingestion handed to insert gives back every
\* labelled field the template emitted with a value, with that value (a
\* multiline field begins with the space-join of its lines), also with nested
\* itinerary stops and with a multiline label on a line of its own.
C4_RoundTrip ==
    pc = "ingested" =>
      LET parsed == parse_description(rag[Len(rag)]).data
          fields == IF request.op = "ingest_cruise" THEN CruiseEmitted(Arg)
                    ELSE LineEmitted(Arg)
      IN  \A f \in fields :
            Strip(f.value) # <<>> =>
              /\ f.label \in DOMAIN parsed
              /\ IF f.label \in multiline_keys
                 THEN /\ parsed[f.label].t = "str"
                      /\ IsPrefix(JoinedValue(f.value), parsed[f.label].s)
                 ELSE parsed[f.label] = ChainValue(Strip(f.value))


(* C7: for every parsed record, whatever the type of each of its fields and *)
(* whichever are absent, the facet filter of search evaluates without       *)
(* raising, and the results returned are exactly the records that satisfy   *)
(* all six bounds, in the order the service answered them.                  *)
InRange(lo, v, hi) ==
    IF lo.t = "str"
    THEN v.t = "str" /\ StrLe(lo.s, v.s) /\ StrLe(v.s, hi.s)
    ELSE IsNumber(v) /\ NumLe(lo, v) /\ NumLe(v, hi)

Allowed(v, allowed) ==
    /\ v.t = "str"
    /\ LET parts == Split(v.s, Chars(", "))
       IN  \E i \in 1..Len(allowed) : allowed[i] = parts[Len(parts)]

SixBounds(result, p) ==
    /\ InRange(p.departure_date_lower,
               Get(result, Chars("Departure Date"), StrVal(<<>>)),
               p.departure_date_upper)
    /\ InRange(p.duration_lower, Get(result, Chars("Duration"), IntVal(0)),
               p.duration_upper)
    /\ InRange(p.price_lower, Get(result, Chars("Cruise Only From"), IntVal(0)),
               p.price_upper)
    /\ Allowed(Get(result, Chars("Cruise Lines"), StrVal(<<>>)), p.cruise_lines)
    /\ Allowed(Get(result, Chars("Departure Ports"), StrVal(<<>>)), p.departure_ports)
    /\ PyEq(Get(result, Chars("Adults Only"), BoolVal(FALSE)), p.adults_only)

RawParsed == [i \in 1..Len(raw_results) |-> parse_description(raw_results[i]).data]

KeptAreSatisfying ==
    (pc = "returned" /\ request.op = "search") =>
        outcome.results = SelectSeq(RawParsed, LAMBDA r : SixBounds(r, request.arg))

C7_FilterTotal ==
    /\ ~(pc = "raised" /\ outcome.stage = "filter")
    /\ KeptAreSatisfying

C7_SomeKept ==
    pc = "returned" /\ request.op = "search" /\ Len(outcome.results) = 2


(* C11: every call of search first inserts the formatted text of its        *)
(* parameters, then, only when that insert has completed, issues exactly    *)
(* one query with the raw query string, and parses and filters only after   *)
(* the query has answered; when the insert fails no query is issued and no  *)
(* result is returned.  The service keeps one more document for every       *)
(* search whose insert completed, hence n documents after n searches that   *)
(* returned.                                                                *)
DemoDocument ==
    Chars("\n        SEARCH CRUISES\n        Query: luxury cruise\n        Departure Date Range: 2024-06-01 to 2024-08-31\n        Duration: 7 to 14 nights\n        Price Range: $1000.0 to $3000.0\n        Cruise Lines: Viking, Norwegian\n        Departure Ports: Miami, Fort Lauderdale\n        Adults Only: True\n        ")

DemoQuery == StrVal(Chars("luxury cruise"))

\* what the service holds at each position of a call
ServiceInOrder ==
    /\ Len(queries) = Len(rag) - (IF pc = "search_inserted" THEN 1 ELSE 0)
    /\ \A i \in 1..Len(rag) : rag[i] = DemoDocument
    /\ \A i \in 1..Len(queries) : queries[i] = DemoQuery
    /\ pc \in {"search_inserted", "search_queried", "returned"} => Len(rag) >= 1
    /\ outcome.kind = "return" <=> pc = "returned"
    /\ (pc = "raised" /\ outcome.stage = "insert") => raw_results = <<>>

\* n searches, n documents
OnePerSearch ==
    /\ Len(rag) <= request.call
    /\ Len(rag) >= request.returned + (IF pc = "returned" THEN 1 ELSE 0)
    /\ (pc = "returned" /\ request.returned = request.call - 1) =>
           (Len(rag) = request.call /\ Len(queries) = request.call)

\* what one step of a call may do to the service and to the caller
OrderedStep ==
    /\ rag' # rag =>
         /\ pc = "search_call" /\ pc' = "search_inserted"
         /\ rag' = Append(rag, DemoDocument)
         /\ queries' = queries
    /\ queries' # queries =>
         /\ pc = "search_inserted"
         /\ queries' = Append(queries, DemoQuery)
         /\ rag' = rag
    /\ pc = "search_call" => pc' \in {"search_inserted", "raised"}
    /\ pc = "search_inserted" =>
         /\ pc' \in {"search_queried", "raised"}
         /\ Len(queries') = Len(queries) + 1
    /\ pc = "search_queried" =>
         /\ pc' \in {"returned", "raised"}
         /\ UNCHANGED <<rag, queries, raw_results>>
    /\ (pc = "search_call" /\ pc' = "raised") =>
         /\ UNCHANGED <<rag, queries, raw_results>>
         /\ outcome'.kind = "raise" /\ outcome'.stage = "insert"
    /\ pc \in {"raised", "returned"} =>
         /\ pc' = "search_call"
         /\ request'.call = request.call + 1
         /\ UNCHANGED <<rag, queries>>

C11_SearchOrder ==
    /\ [](ServiceInOrder /\ OnePerSearch)
    /\ [][OrderedStep]_vars

C11_Witness ==
    /\ pc = "returned"
    /\ request.call = 2
    /\ request.returned = 1
    /\ rag = <<DemoDocument, DemoDocument>>
    /\ queries = <<DemoQuery, DemoQuery>>
    /\ Len(outcome.results) = 1

=============================================================================
